---- MODULE Spec2Model ----
(***************************************************************************)
(* A model of arrs-bitmap: Bitmap (src/src/bitmap.rs) and the word         *)
(* realigner re_align (src/src/compute/re_align.rs).                       *)
(*                                                                         *)
(* Memory.  A Buffer is the sequence of its len() bytes (0..255).  The     *)
(* unsafe code reads and writes 64-bit words through raw pointers; a word  *)
(* is modelled as its 64 bits, bit j of the word being bit j % 8 of byte   *)
(* j / 8 of the word (a little-endian target, on which to_le is the        *)
(* identity).  A byte outside the Buffer's len() bytes is not owned by the *)
(* Buffer: reading it is undefined behaviour and yields an arbitrary value *)
(* (all bits `fill`, chosen nondeterministically), and a store to it is    *)
(* recorded (op.wrEnd) and kept in no Buffer.                              *)
(*                                                                         *)
(* usize.  A usize value v is modelled by the integer v when it is close   *)
(* to 0 and by v - 2^64 (a negative integer) when it is close to 2^64, so  *)
(* that checked and wrapping addition are exact on the values used.        *)
(***************************************************************************)
EXTENDS Integers, Sequences, FiniteSets

VARIABLES heap, bm, parent, op, bools, origin, nslices, ranges

vars == <<heap, bm, parent, op, bools, origin, nslices, ranges>>

(***************************************************************************)
(* Bounds of the model.                                                    *)
(***************************************************************************)
MaxBits == 130
MaxSlices == 2
MaxBufBytes == 9

(***************************************************************************)
(* Program constants.                                                      *)
(***************************************************************************)
WordBits == 64
ByteBits == 8
ScanAlign == 64

Pow2(k) == 2 ^ k

Some(v) == [some |-> TRUE, val |-> v]
None == [some |-> FALSE, val |-> 0]

(***************************************************************************)
(* usize arithmetic.                                                       *)
(***************************************************************************)
USIZE_MAX == -1

\* a <= b on usize values
ULe(a, b) == IF (a >= 0) = (b >= 0) THEN a <= b ELSE a >= 0

\* usize::checked_add: None when the sum reaches 2^64
checked_add(a, b) ==
    IF a >= 0 /\ b >= 0 THEN Some(a + b)
    ELSE IF a < 0 /\ b < 0 THEN None
    ELSE IF a + b >= 0 THEN None
    ELSE Some(a + b)

\* usize::wrapping_add (used by the faulty variant of slice_in_range only)
wrapping_add(a, b) == a + b

\* usize::checked_next_multiple_of(m): None when the multiple reaches 2^64
checked_next_multiple_of(x, m) ==
    LET r == x % m
        v == IF r = 0 THEN x ELSE x + (m - r)
    IN  IF x < 0 /\ v >= 0 THEN None ELSE Some(v)

\* usize::next_multiple_of(m), on values close to 0
next_multiple_of(x, m) == ((x + m - 1) \div m) * m

(***************************************************************************)
(* Bit operations on bytes.                                                *)
(***************************************************************************)
RECURSIVE BitOr(_, _)
BitOr(a, b) ==
    IF a = 0 THEN b
    ELSE IF b = 0 THEN a
    ELSE (IF a % 2 = 1 \/ b % 2 = 1 THEN 1 ELSE 0) + 2 * BitOr(a \div 2, b \div 2)

RECURSIVE BitAnd(_, _)
BitAnd(a, b) ==
    IF a = 0 \/ b = 0 THEN 0
    ELSE (IF a % 2 = 1 /\ b % 2 = 1 THEN 1 ELSE 0) + 2 * BitAnd(a \div 2, b \div 2)

\* u8 << k
ShlU8(v, k) == (v * Pow2(k)) % 256

\* bool as u8
BoolU8(b) == IF b THEN 1 ELSE 0

(***************************************************************************)
(* Raw memory seen through a Buffer's pointer.                             *)
(***************************************************************************)
\* the byte at offset ix from as_ptr(); outside the Buffer it is arbitrary
MemByte(bytes, ix, fill) ==
    IF ix >= 0 /\ ix < Len(bytes) THEN bytes[ix + 1] ELSE 255 * fill

\* *(ptr as *const u64).add(w): the 64 bits of word w
MemWord(bytes, w, fill) ==
    [j \in 0..(WordBits - 1) |->
        (MemByte(bytes, (WordBits \div ByteBits) * w + (j \div ByteBits), fill)
            \div Pow2(j % ByteBits)) % 2]

\* byte k (0..7) of a word
WordByte(word, k) ==
    word[8 * k] + 2 * word[8 * k + 1] + 4 * word[8 * k + 2] + 8 * word[8 * k + 3]
    + 16 * word[8 * k + 4] + 32 * word[8 * k + 5] + 64 * word[8 * k + 6]
    + 128 * word[8 * k + 7]

to_le(word) == word

\* u64 >> s
ShrWord(word, s) ==
    [j \in 0..(WordBits - 1) |-> IF j + s < WordBits THEN word[j + s] ELSE 0]

\* u64 << s
ShlWord(word, s) ==
    [j \in 0..(WordBits - 1) |-> IF j >= s THEN word[j - s] ELSE 0]

\* u64 | u64
OrWord(x, y) ==
    [j \in 0..(WordBits - 1) |-> IF x[j] = 1 \/ y[j] = 1 THEN 1 ELSE 0]

(***************************************************************************)
(* compute::re_align                                                       *)
(***************************************************************************)
\* faulty variant of right_shift: one bit short
right_shift_off(shift) == (WordBits - 1) - shift

\* let right_shift = 64 - shift
right_shift(shift) == WordBits - shift

\* The words stored at dst[0 .. len-1], reading src[0 .. len-1]; src is the
\* function from source word index (relative to the src pointer) to word.
re_align(src, len, shift) ==
    IF len = 0 THEN << >>
    ELSE IF shift = 0 THEN [k \in 1..len |-> src[k - 1]]
    ELSE [k \in 1..len |->
            IF k < len
            THEN OrWord(ShrWord(to_le(src[k - 1]), shift),
                        ShlWord(to_le(src[k]), right_shift(shift)))
            ELSE ShrWord(to_le(src[k - 1]), shift)]

\* the number of source words re_align loads (src[0 .. len-1]), which is also the
\* number of destination words it stores (dst[0 .. len-1]), for either shift
re_align_words(len) == len

(***************************************************************************)
(* Bitmap                                                                  *)
(***************************************************************************)
NoBitmap == [buf |-> 0, num_bits |-> 0]

\* number of bytes for num_bits bits (checked_next_multiple_of(8).unwrap() / 8)
num_bytes_of(num_bits) == checked_next_multiple_of(num_bits, ByteBits).val \div ByteBits

\* faulty variant of mask: most significant bit first
mask_msb(bit_index) == Pow2(7 - (bit_index % ByteBits))

\* let mask = 1 << (bit_index % 8)
mask(bit_index) == Pow2(bit_index % ByteBits)

get_unchecked(h, b, bit_index) ==
    LET byte_index == bit_index \div ByteBits
    IN  BitAnd(MemByte(h[b.buf], byte_index, 0), mask(bit_index)) # 0

get(h, b, bit_index) ==
    IF bit_index >= b.num_bits THEN None
    ELSE Some(get_unchecked(h, b, bit_index))

\* the bulk loop of from_bools: byte g packs bools 8g .. 8g+7
from_bools_full_byte(bs, g) ==
    LET p(k) == BoolU8(bs[8 * g + k + 1])
    IN  BitOr(p(0), BitOr(ShlU8(p(1), 1), BitOr(ShlU8(p(2), 2), BitOr(ShlU8(p(3), 3),
        BitOr(ShlU8(p(4), 4), BitOr(ShlU8(p(5), 5), BitOr(ShlU8(p(6), 6), ShlU8(p(7), 7))))))))

\* the remainder loop of from_bools: the last num_bits % 8 bools
RECURSIVE from_bools_rest(_, _, _, _)
from_bools_rest(bs, base, shift, rem) ==
    IF shift >= rem THEN 0
    ELSE BitOr(ShlU8(BoolU8(bs[base + shift + 1]), shift),
               from_bools_rest(bs, base, shift + 1, rem))

from_bools_bytes(bs) ==
    LET num_bits == Len(bs)
        num_bytes == num_bytes_of(num_bits)
    IN  [g \in 1..num_bytes |->
            IF g <= num_bits \div 8 THEN from_bools_full_byte(bs, g - 1)
            ELSE from_bools_rest(bs, 8 * (g - 1), 0, num_bits % 8)]

\* faulty variant of from_buf_fits: accepts a buffer one byte short
from_buf_fits_loose(num_bytes, buf_len) == num_bytes <= buf_len + 1

\* assert!(num_bytes <= buf.len())
from_buf_fits(num_bytes, buf_len) == num_bytes <= buf_len

\* faulty variant of slice_in_range: the sum wraps instead of being checked
slice_in_range_wrapping(start_bit, num_bits, self_bits) ==
    ULe(wrapping_add(start_bit, num_bits), self_bits)

\* assert!(start_bit.checked_add(num_bits).unwrap() <= self.num_bits)
slice_in_range(start_bit, num_bits, self_bits) ==
    LET s == checked_add(start_bit, num_bits)
    IN  s.some /\ ULe(s.val, self_bits)

\* faulty variant of slice_shares_buf: zero-copy at every byte-aligned start
slice_shares_buf_aligned(start_bit) == start_bit % ByteBits = 0

\* if start_bit == 0 { return Self { buf: self.buf.clone(), num_bits } }
slice_shares_buf(start_bit) == start_bit = 0

\* the `len` argument slice passes to re_align
slice_words(num_bits) == ((num_bits + 63) \div WordBits) + 1

\* the bytes of the Buffer slice allocates and fills when start_bit != 0
slice_bytes(src_bytes, start_bit, num_bits, fill) ==
    LET num_bytes == num_bytes_of(num_bits)
        start_word == start_bit \div WordBits
        shift == start_bit % WordBits
        len == slice_words(num_bits)
        src == [k \in 0..(len - 1) |-> MemWord(src_bytes, start_word + k, fill)]
        dst == re_align(src, len, shift)
    IN  [g \in 1..num_bytes |-> WordByte(dst[(g - 1) \div 8 + 1], (g - 1) % 8)]


(***************************************************************************)
(* compute::set_ranges, the range scanner.  It walks the span word by      *)
(* word; inside a word it jumps from run boundary to run boundary with     *)
(* trailing-zero and trailing-one counts, and a run still open at the end  *)
(* of a word is carried into the next word.                                *)
(***************************************************************************)
\* number of consecutive bits equal to v in word from position pos upwards
\* (trailing_zeros / trailing_ones of the word shifted down by pos)
trailing_count(word, pos, v) ==
    LET other == {q \in pos..(WordBits - 1) : word[q] # v}
    IN  IF other = {} THEN WordBits - pos
        ELSE (CHOOSE q \in other : \A r \in other : q <= r) - pos

\* the runs of set bits of one word at or after bit pos, ascending, as
\* (start, end) pairs of bit positions in the word
RECURSIVE word_runs(_, _)
word_runs(word, pos) ==
    LET s == pos + trailing_count(word, pos, 0)
        e == s + trailing_count(word, s, 1)
    IN  IF s >= WordBits THEN << >>
        ELSE << <<s, e>> >> \o word_runs(word, e)

\* scan words w .. nwords-1; open is the start of the run still open at the
\* end of word w-1, or -1
RECURSIVE scan_words(_, _, _, _, _)
scan_words(bytes, fill, w, nwords, open) ==
    IF w >= nwords
    THEN IF open >= 0 THEN << <<open, WordBits * nwords>> >> ELSE << >>
    ELSE LET word == MemWord(bytes, w, fill)
             base == WordBits * w
             runs == word_runs(word, 0)
             n == Len(runs)
             \* a run starting at bit 0 continues the open run
             joins == n > 0 /\ runs[1][1] = 0
             \* a run ending at the last bit stays open
             stays == n > 0 /\ runs[n][2] = WordBits
             first == IF open >= 0 /\ joins THEN open ELSE base + (IF n > 0 THEN runs[1][1] ELSE 0)
             closed == [k \in 1..(IF stays THEN n - 1 ELSE n) |->
                          <<IF k = 1 THEN first ELSE base + runs[k][1], base + runs[k][2]>>]
             before == IF open >= 0 /\ ~joins THEN << <<open, base>> >> ELSE << >>
             carry == IF ~stays THEN -1
                      ELSE IF n = 1 THEN first
                      ELSE base + runs[n][1]
         IN  before \o closed \o scan_words(bytes, fill, w + 1, nwords, carry)

\* compute::set_ranges(ptr, len): len is a byte length
compute_set_ranges(bytes, len, fill) ==
    scan_words(bytes, fill, 0, len \div (WordBits \div ByteBits), -1)

\* faulty variant of scan_len: rounds up to one 64-bit word (8 bytes)
scan_len_word(buf_len) == next_multiple_of(buf_len, WordBits \div ByteBits)

\* let len = self.buf.len().next_multiple_of(64)
scan_len(buf_len) == next_multiple_of(buf_len, ScanAlign)

\* faulty variant of set_ranges: no early return for num_bits == 0
set_ranges_unguarded(h, b, fill) ==
    LET len == scan_len(Len(h[b.buf]))
    IN  [out |-> compute_set_ranges(h[b.buf], len, fill), len |-> len]

\* Bitmap::set_ranges: out is the returned Vec, len the byte length scanned
set_ranges(h, b, fill) ==
    IF b.num_bits = 0 THEN [out |-> << >>, len |-> 0]
    ELSE LET len == scan_len(Len(h[b.buf]))
         IN  [out |-> compute_set_ranges(h[b.buf], len, fill), len |-> len]

(***************************************************************************)
(* Inputs.                                                                 *)
(***************************************************************************)
Patterns == {"ones", "mod3", "edge", "zeros"}

\* bool i of the input pattern p
Pattern(p, i) ==
    CASE p = "ones" -> TRUE
      [] p = "mod3" -> i % 3 = 0
      [] p = "edge" -> (i % WordBits) \in {0, 2, WordBits - 1}
      [] OTHER -> FALSE

Bools(n, p) == [i \in 1..n |-> Pattern(p, i - 1)]

\* the bytes of a caller-built buffer of len bytes holding pattern p
BufBytes(len, p) ==
    [g \in 1..len |->
        LET bit(k) == BoolU8(Pattern(p, 8 * (g - 1) + k))
        IN  bit(0) + 2 * bit(1) + 4 * bit(2) + 8 * bit(3)
            + 16 * bit(4) + 32 * bit(5) + 64 * bit(6) + 128 * bit(7)]

Sizes ==
    {n \in 0..MaxBits :
        \/ n \in {0, 1, 2, 3, ByteBits - 1, ByteBits, ByteBits + 1, WordBits \div 2, MaxBits}
        \/ (n % WordBits) \in {0, 1, WordBits - 1}}

StartArgs(n) ==
    {s \in {0, 1, ByteBits, WordBits - 1, WordBits, WordBits + 1, n \div 2} : s <= n + 1}
        \cup {USIZE_MAX}

LenArgs(n, s) ==
    {l \in {0, 1, ByteBits, WordBits, WordBits + 1, n - s, n - s + 1} : l >= 0 /\ l <= n + 1}
        \cup {USIZE_MAX}

BufLens == {0, 1, MaxBufBytes}

BufBitArgs(len) ==
    {b \in {0, 1, 8 * len - 1, 8 * len, 8 * len + 1} : b >= 0} \cup {USIZE_MAX}

(***************************************************************************)
(* State machine.                                                          *)
(***************************************************************************)
NoOp == [name |-> "none", a |-> 0, b |-> 0, result |-> "ok", rdEnd |-> 0, wrEnd |-> 0]

Panic(name, a, b) ==
    [name |-> name, a |-> a, b |-> b, result |-> "panic", rdEnd |-> 0, wrEnd |-> 0]

Handles == {1, 2}

EmptyHeap == [h \in Handles |-> << >>]

Init ==
    /\ heap = EmptyHeap
    /\ bm = NoBitmap
    /\ parent = NoBitmap
    /\ op = NoOp
    /\ bools = << >>
    /\ origin = "none"
    /\ nslices = 0
    /\ ranges = << >>

\* Bitmap::from_bools(bools)
FromBools(n, p) ==
    /\ origin = "none"
    /\ op.result = "ok"
    /\ bools' = Bools(n, p)
    /\ heap' = [EmptyHeap EXCEPT ![1] = from_bools_bytes(Bools(n, p))]
    /\ bm' = [buf |-> 1, num_bits |-> n]
    /\ op' = [NoOp EXCEPT !.name = "from_bools", !.a = n]
    /\ origin' = "bools"
    /\ UNCHANGED <<parent, nslices, ranges>>

\* Bitmap::from_buf(buf, num_bits)
FromBuf(len, p, num_bits) ==
    /\ origin = "none"
    /\ op.result = "ok"
    /\ LET m == checked_next_multiple_of(num_bits, ByteBits)
       IN  IF m.some /\ from_buf_fits(m.val \div ByteBits, len)
           THEN /\ heap' = [EmptyHeap EXCEPT ![1] = BufBytes(len, p)]
                /\ bm' = [buf |-> 1, num_bits |-> num_bits]
                /\ op' = [NoOp EXCEPT !.name = "from_buf", !.a = len, !.b = num_bits]
                /\ origin' = "buf"
           ELSE /\ op' = Panic("from_buf", len, num_bits)
                /\ UNCHANGED <<heap, bm, origin>>
    /\ UNCHANGED <<parent, bools, nslices, ranges>>

\* Bitmap::slice(start_bit, num_bits) on the current bitmap
\* op.rdEnd: the byte offset, from the source buffer's pointer, where the last
\* word loaded by re_align ends; op.wrEnd: the same for the words stored to the
\* destination.  fill is what the memory outside the source buffer reads as.
Slice(start_bit, num_bits, fill) ==
    /\ origin # "none"
    /\ op.result = "ok"
    /\ nslices < MaxSlices
    /\ nslices' = nslices + 1
    /\ IF ~slice_in_range(start_bit, num_bits, bm.num_bits)
       THEN /\ op' = Panic("slice", start_bit, num_bits)
            /\ UNCHANGED <<heap, bm, parent>>
       ELSE IF slice_shares_buf(start_bit)
       THEN /\ bm' = [buf |-> bm.buf, num_bits |-> num_bits]
            /\ parent' = bm
            /\ heap' = [h \in Handles |-> IF h = bm.buf THEN heap[h] ELSE << >>]
            /\ op' = [NoOp EXCEPT !.name = "slice", !.a = start_bit, !.b = num_bits]
       ELSE IF ~checked_next_multiple_of(num_bits, ByteBits).some
       THEN /\ op' = Panic("slice", start_bit, num_bits)
            /\ UNCHANGED <<heap, bm, parent>>
       ELSE LET new == CHOOSE h \in Handles : h # bm.buf
                len == slice_words(num_bits)
            IN  /\ bm' = [buf |-> new, num_bits |-> num_bits]
                /\ parent' = bm
                /\ heap' = [h \in Handles |->
                              IF h = new
                              THEN slice_bytes(heap[bm.buf], start_bit, num_bits, fill)
                              ELSE IF h = bm.buf THEN heap[h] ELSE << >>]
                /\ op' = [name |-> "slice", a |-> start_bit, b |-> num_bits,
                          result |-> "ok",
                          rdEnd |-> (WordBits \div ByteBits)
                                      * ((start_bit \div WordBits) + re_align_words(len)),
                          wrEnd |-> (WordBits \div ByteBits) * re_align_words(len)]
    /\ UNCHANGED <<bools, origin, ranges>>

Next ==
    \/ \E n \in Sizes, p \in Patterns : FromBools(n, p)
    \/ \E len \in BufLens, p \in {"ones", "mod3"} :
          \E nb \in BufBitArgs(len) : FromBuf(len, p, nb)
    \/ \E s \in StartArgs(bm.num_bits), fill \in {0, 1} :
          \E l \in LenArgs(bm.num_bits, s) : Slice(s, l, fill)

Spec == Init /\ [][Next]_vars

\* Bitmap::set_ranges() on the current bitmap
SetRanges(fill) ==
    /\ origin # "none"
    /\ op.result = "ok"
    /\ op.name # "set_ranges"
    /\ LET r == set_ranges(heap, bm, fill)
       IN  /\ ranges' = r.out
           /\ op' = [NoOp EXCEPT !.name = "set_ranges", !.a = fill, !.b = r.len]
    /\ UNCHANGED <<heap, bm, parent, bools, origin, nslices>>

\* the first slice of a newly built bitmap
SliceOnce(start_bit, num_bits, fill) ==
    /\ nslices = 0
    /\ op.name # "set_ranges"
    /\ Slice(start_bit, num_bits, fill)

NextScan ==
    \/ \E n \in Sizes, p \in Patterns : FromBools(n, p)
    \/ \E len \in BufLens, p \in {"ones", "mod3"} :
          \E nb \in BufBitArgs(len) : FromBuf(len, p, nb)
    \/ \E s \in StartArgs(bm.num_bits), fill \in {0, 1} :
          \E l \in LenArgs(bm.num_bits, s) : SliceOnce(s, l, fill)
    \/ \E fill \in {0, 1} : SetRanges(fill)

\* the specification under which the range scan is checked: a bitmap is
\* built, sliced at most once, and then scanned
SpecScan == Init /\ [][NextScan]_vars


(***************************************************************************)
(* Helpers of the properties.                                              *)
(***************************************************************************)
SliceReturned == op.name = "slice" /\ op.result = "ok"

\* bit i of a byte sequence, read directly
BitOf(bytes, i) == (bytes[(i \div 8) + 1] \div Pow2(i % 8)) % 2

\* ceil(n / 8) bytes hold n bits
Holds(buf_len, n) == 8 * buf_len >= n

\* m is the smallest multiple of unit that is >= x
SmallestMultiple(m, unit, x) == m % unit = 0 /\ m >= x /\ m - x < unit

\* the set bits of the first len bytes of memory at the buffer of the bitmap
SpanBits(len, fill) ==
    LET bytes == heap[bm.buf]
    IN  {i \in 0..(8 * len - 1) :
            (MemByte(bytes, i \div 8, fill) \div Pow2(i % 8)) % 2 = 1}

RangeBits(R) == UNION {R[k][1]..(R[k][2] - 1) : k \in 1..Len(R)}

(***************************************************************************)
(* C1: for a bitmap B and start + len <= B.num_bits, both on the           *)
(* start == 0 path and on the realigning path,                             *)
(* B.slice(start, len).get(i) == B.get(start + i) for every i < len.       *)
(***************************************************************************)
C1_SliceGet ==
    SliceReturned =>
        \A i \in 0..(op.b - 1) :
            /\ get(heap, bm, i).some
            /\ get(heap, bm, i) = get(heap, parent, op.a + i)

\* a realigned slice of a from_bools bitmap that starts in the second word with a
\* non-zero shift, spans a word boundary and holds set and unset bits
C1_Witness ==
    /\ SliceReturned
    /\ origin = "bools"
    /\ nslices = 1
    /\ op.a = WordBits + 1
    /\ op.b = WordBits + 1
    /\ \E i, j \in 0..(op.b - 1) : get(heap, bm, i).val /\ ~get(heap, bm, j).val

(***************************************************************************)
(* C2: from_bools(b).get(i) == Some(b[i]) for i < len(b) and None for      *)
(* i >= len(b); the buffer has ceil(len(b)/8) bytes and bool i is bit      *)
(* i % 8 of byte i / 8.                                                    *)
(***************************************************************************)
C2_RoundTrip ==
    op.name = "from_bools" =>
        /\ bm.num_bits = Len(bools)
        /\ \A i \in 0..(Len(bools) + 8) :
              get(heap, bm, i) = IF i < Len(bools) THEN Some(bools[i + 1]) ELSE None
        /\ \A i \in 0..(Len(bools) - 1) :
              BitOf(heap[bm.buf], i) = BoolU8(bools[i + 1])

\* a from_bools bitmap with full bytes and a partial last byte, set and unset bools
C2_Witness ==
    /\ op.name = "from_bools"
    /\ Len(bools) > 8
    /\ Len(bools) % 8 # 0
    /\ \E i, j \in 1..Len(bools) : bools[i] /\ ~bools[j]

(***************************************************************************)
(* C3: slice(start, len) returns a bitmap on the same Buffer handle as     *)
(* the sliced bitmap if and only if start == 0.                            *)
(***************************************************************************)
C3_ZeroCopyIffStartZero ==
    SliceReturned => ((bm.buf = parent.buf) <=> (op.a = 0))

\* a slice at a byte- and word-aligned non-zero start, on a new handle
C3_Witness ==
    /\ SliceReturned
    /\ op.a = WordBits
    /\ op.b > 0
    /\ bm.buf # parent.buf

(***************************************************************************)
(* C4: every bitmap has buffer.len() >= ceil(num_bits / 8), and from_buf   *)
(* panics on a buffer shorter than that.                                   *)
(***************************************************************************)
C4_BufferHoldsBits ==
    /\ bm.buf # 0 => Holds(Len(heap[bm.buf]), bm.num_bits)
    /\ parent.buf # 0 => Holds(Len(heap[parent.buf]), parent.num_bits)
    /\ (op.name = "from_buf" /\ (op.b < 0 \/ ~Holds(op.a, op.b))) => op.result = "panic"

\* a from_buf bitmap sliced twice, the second time through the realigner
C4_Witness ==
    /\ origin = "buf"
    /\ nslices = 2
    /\ SliceReturned
    /\ op.a # 0
    /\ op.b > 0

(***************************************************************************)
(* C5: slice(start, len) panics exactly when start + len, computed         *)
(* without wrapping, exceeds num_bits.                                     *)
(***************************************************************************)
C5_SlicePanicsIffOutOfRange ==
    op.name = "slice" =>
        LET self == IF op.result = "panic" THEN bm ELSE parent
            exceeds == op.a < 0 \/ op.b < 0 \/ op.a + op.b > self.num_bits
        IN  (op.result = "panic") <=> exceeds

\* slice(usize::MAX, 1), whose sum overflows, has panicked
C5_Witness ==
    /\ op.name = "slice"
    /\ op.a = USIZE_MAX
    /\ op.b = 1
    /\ op.result = "panic"

(***************************************************************************)
(* C6: for num_bits > 0 set_ranges() returns the maximal runs of set bits  *)
(* of the scanned span, ascending, disjoint and non-adjacent, their union  *)
(* being the set bits of the span; for num_bits == 0 it returns nothing.   *)
(***************************************************************************)
C6_SetRangesMaximalRuns ==
    op.name = "set_ranges" =>
        IF bm.num_bits = 0 THEN ranges = << >>
        ELSE LET R == ranges
                 span == 8 * next_multiple_of(Len(heap[bm.buf]), ScanAlign)
                 S == SpanBits(op.b, op.a)
             IN  /\ \A k \in 1..Len(R) :
                       /\ 0 <= R[k][1]
                       /\ R[k][1] < R[k][2]
                       /\ R[k][2] <= span
                       /\ \A i \in R[k][1]..(R[k][2] - 1) : i \in S
                       /\ R[k][1] > 0 => (R[k][1] - 1) \notin S
                       /\ R[k][2] < span => R[k][2] \notin S
                 /\ \A k \in 1..(Len(R) - 1) : R[k][2] < R[k + 1][1]
                 /\ RangeBits(R) = S

\* a scan of a bitmap of more than one word that reports several runs, one of
\* them crossing the first word boundary
C6_Witness ==
    /\ op.name = "set_ranges"
    /\ bm.num_bits > WordBits
    /\ Len(ranges) > 2
    /\ \E k \in 1..Len(ranges) :
          ranges[k][1] > 0 /\ ranges[k][1] < WordBits /\ ranges[k][2] > WordBits

(***************************************************************************)
(* C7: in a realigning slice every source word read lies within the        *)
(* source Buffer's len() bytes.                                            *)
(***************************************************************************)
C7_ReadsInBounds ==
    (SliceReturned /\ op.a # 0) => op.rdEnd <= Len(heap[parent.buf])

C9_WritesInBounds ==
    (SliceReturned /\ op.a # 0) => op.wrEnd <= Len(heap[bm.buf])

(***************************************************************************)
(* C10: a bitmap obtained from from_bools and slices has every buffer bit  *)
(* at index >= num_bits zero, and set_ranges() returns no range ending     *)
(* beyond num_bits (memory outside the buffer reading as zero).            *)
(***************************************************************************)
C10_TailBitsZero ==
    (origin = "bools" /\ bm.buf # 0) =>
        /\ \A i \in bm.num_bits..(8 * Len(heap[bm.buf]) - 1) : BitOf(heap[bm.buf], i) = 0
        /\ LET R == set_ranges(heap, bm, 0).out
           IN  \A k \in 1..Len(R) : R[k][2] <= bm.num_bits

====
